---- MODULE Spec2Model ----
(***************************************************************************)
(* Model of beatwatch_process.parsers: Parser.parse_file (line classifier, *)
(* table builder, metadata reconciler, absolute-timestamp back-fill) and   *)
(* select_period (window resolution and filtering).                        *)
(*                                                                         *)
(* Text is modelled as sequences of one-character strings, so that         *)
(* strip(), startswith(), [0], isdigit(), int() and the CSV split are      *)
(* computed as the code computes them.  Times are integers counting        *)
(* nanoseconds (pandas' resolution); NaT is a separate value.              *)
(***************************************************************************)
EXTENDS Integers, Sequences, FiniteSets, TLC

\* ------------------------------------------------------------------ bounds
MaxLines == 2      \* lines in a file
MaxRows == 2       \* rows in a table handed to select_period
MaxT == 2          \* largest time value (ms) among select_period's inputs

\* --------------------------------------------------------- program constants
NsPerMs == 1000000        \* unit="ms" of pd.to_timedelta / pd.to_datetime
LegacyVersionTenths == 2  \* "version < 0.2", in tenths
VersionTenths == {1, 2}     \* parse_file(version=...): 0.1 (the default), 0.2

\* ------------------------------------------------------------- text helpers
DigitChars == {"0", "1", "2", "3", "4", "5", "6", "7", "8", "9"}

DigitVal(c) ==
  CASE c = "0" -> 0 [] c = "1" -> 1 [] c = "2" -> 2 [] c = "3" -> 3
    [] c = "4" -> 4 [] c = "5" -> 5 [] c = "6" -> 6 [] c = "7" -> 7
    [] c = "8" -> 8 [] c = "9" -> 9

DigitChar(d) == <<"0", "1", "2", "3", "4", "5", "6", "7", "8", "9">>[d + 1]

\* str(n) for a natural number n
RECURSIVE StrOfNat(_)
StrOfNat(n) == IF n < 10 THEN <<DigitChar(n)>>
               ELSE Append(StrOfNat(n \div 10), DigitChar(n % 10))

\* str.strip(): drop leading and trailing blanks
RECURSIVE LStrip(_, _)
LStrip(s, cs) == IF s # <<>> /\ Head(s) \in cs THEN LStrip(Tail(s), cs) ELSE s

RECURSIVE RStrip(_, _)
RStrip(s, cs) == IF s # <<>> /\ s[Len(s)] \in cs
                 THEN RStrip(SubSeq(s, 1, Len(s) - 1), cs) ELSE s

Strip(s, cs) == RStrip(LStrip(s, cs), cs)

Whitespace == {" "}

\* next(csv.reader([line])) for a line without quote characters: the fields
\* between commas; an empty line gives the empty row.
RECURSIVE SplitFrom(_, _, _)
SplitFrom(s, i, cur) ==
  IF i > Len(s) THEN <<cur>>
  ELSE IF s[i] = "," THEN <<cur>> \o SplitFrom(s, i + 1, <<>>)
  ELSE SplitFrom(s, i + 1, Append(cur, s[i]))

CsvRow(line) == IF line = <<>> THEN <<>> ELSE SplitFrom(line, 1, <<>>)

\* int(s) succeeds on an optionally blank-padded run of decimal digits
IsIntStr(s) ==
  LET t == Strip(s, Whitespace)
  IN t # <<>> /\ \A i \in 1..Len(t) : t[i] \in DigitChars

RECURSIVE IntOfDigits(_)
IntOfDigits(t) == IF t = <<>> THEN 0
                  ELSE 10 * IntOfDigits(SubSeq(t, 1, Len(t) - 1)) + DigitVal(t[Len(t)])

IntOfStr(s) == IntOfDigits(Strip(s, Whitespace))

\* Python 3 round(k / 10) for an int k >= 0: nearest integer, ties to even
RoundDiv10(k) ==
  LET q == k \div 10
      r == k % 10
  IN IF r < 5 THEN q
     ELSE IF r > 5 THEN q + 1
     ELSE IF q % 2 = 0 THEN q ELSE q + 1

\* ------------------------------------------------------------------- values
\* A cell of a CSV row: the field's text, or the int that line 198 puts there.
StrCell(s) == [ty |-> "str", s |-> s, n |-> 0]
IntCell(k) == [ty |-> "int", s |-> <<>>, n |-> k]

\* A JSON scalar / metadata value.
JStr(s) == [ty |-> "str", s |-> s, n |-> 0]
JNum(k) == [ty |-> "num", s |-> "", n |-> k]

\* pandas time values: a count of nanoseconds, or NaT
NaT == [nat |-> TRUE, t |-> 0]
Time(ns) == [nat |-> FALSE, t |-> ns]
TimeAdd(a, b) == IF a.nat \/ b.nat THEN NaT ELSE Time(a.t + b.t)
TimeSub(a, b) == IF a.nat \/ b.nat THEN NaT ELSE Time(a.t - b.t)

JTd(t) == IF t.nat THEN [ty |-> "nat", s |-> "", n |-> 0]
          ELSE [ty |-> "td", s |-> "", n |-> t.t]

EmptyDict == [k \in {} |-> JNum(0)]

\* dict update: for k, v in d.items(): m[prefix + k] = v
Merge(m, d, prefix) ==
  [x \in DOMAIN m \cup {prefix \o k : k \in DOMAIN d} |->
     IF \E k \in DOMAIN d : prefix \o k = x
     THEN d[CHOOSE k \in DOMAIN d : prefix \o k = x]
     ELSE m[x]]

\* -------------------------------------------------------------- the schemas
cols_hr == <<"time_elapsed", "heart_rate_bpm", "confidence", "ppg_raw", "ppg_filter">>

cols_accel == <<"time_elapsed", "x", "y", "z", "magnitude", "difference">>

\* cols_survey's columns that are cast to int64 from the JSON objects
\* (time_elapsed is overwritten with 0 before the cast)
survey_int_cols == {"number", "item"}

\* ------------------------------------------------------------ input samples
Join(fields) ==
  LET RECURSIVE J(_)
      J(i) == IF i > Len(fields) THEN <<>>
              ELSE IF i = Len(fields) THEN fields[i]
              ELSE fields[i] \o <<",">> \o J(i + 1)
  IN J(1)

\* A line of the file: io = the line cannot be read (invalid UTF-8 bytes);
\* chars = its text; ok/obj = what json.loads makes of it when it starts
\* with "{" (ok = FALSE: JSONDecodeError).
TextLine(cs) == [io |-> FALSE, chars |-> cs, ok |-> FALSE, obj |-> EmptyDict]
CsvLine(fields) == TextLine(Join(fields))
NumLine(ns) == CsvLine([i \in 1..Len(ns) |-> StrOfNat(ns[i])])
JsonLine(o) == [io |-> FALSE, chars |-> <<"{", "}">>, ok |-> TRUE, obj |-> o]
BadJsonLine == [io |-> FALSE, chars |-> <<"{", "b">>, ok |-> FALSE, obj |-> EmptyDict]
BadBytesLine == [io |-> TRUE, chars |-> <<>>, ok |-> FALSE, obj |-> EmptyDict]

SurveyObj == [question |-> JStr("q"), number |-> JNum(1), item |-> JNum(1),
              timeStamp |-> JNum(3), input |-> JStr("slider"),
              range |-> JStr("0-9"), response |-> JStr("4")]

LineSamples == <<
  \* "5,78,95,1,2" and "3,725,40,0,1": heart-rate rows
  NumLine(<<5, 78, 95, 1, 2>>),
  NumLine(<<3, 725, 40, 0, 1>>),
  \* "5,72,95,1": heart-rate row, wrong field count
  NumLine(<<5, 72, 95, 1>>),
  \* "A7,1,2,3,4,5": accel row; "A1,2,3": accel row, wrong field count
  CsvLine(<<<<"A", "7">>, <<"1">>, <<"2">>, <<"3">>, <<"4">>, <<"5">>>>),
  CsvLine(<<<<"A", "1">>, <<"2">>, <<"3">>>>),
  \* ",1,2,3,4": first field empty; "x,1,2,3,4": first field not numeric
  CsvLine(<<<<>>, <<"1">>, <<"2">>, <<"3">>, <<"4">>>>),
  CsvLine(<<<<"x">>, <<"1">>, <<"2">>, <<"3">>, <<"4">>>>),
  \* a blank line
  TextLine(<<" ", " ">>),
  \* "5,,95,1,2": heart-rate row with an empty field
  CsvLine(<<<<"5">>, <<>>, <<"9", "5">>, <<"1">>, <<"2">>>>),
  \* "5,72,95,x,2": heart-rate row with a field that is no number
  CsvLine(<<<<"5">>, <<"7", "2">>, <<"9", "5">>, <<"x">>, <<"2">>>>),
  \* a line that cannot be decoded as UTF-8
  BadBytesLine,
  \* JSON lines
  JsonLine([File |-> [StudyName |-> JStr("S")]]),
  JsonLine([File |-> [StudyName |-> JStr("T"), start_UNIXTimeStamp |-> JNum(3)]]),
  JsonLine([Status |-> [state |-> JStr("START_RECORD")],
            Record |-> [UNIXTimeStamp |-> JNum(2)]]),
  JsonLine([Status |-> [state |-> JStr("STOP_RECORD")],
            Record |-> [UNIXTimeStamp |-> JNum(4)]]),
  JsonLine([Status |-> [battery |-> JNum(9)]]),
  JsonLine([Status |-> [state |-> JStr("START_RECORD")]]),
  JsonLine([Record |-> [State |-> JStr("START_RECORD"), UNIXTimeStamp |-> JNum(1)]]),
  JsonLine([Record |-> [UNIXTimeStamp |-> JNum(1)]]),
  JsonLine(SurveyObj),
  JsonLine([foo |-> JNum(1)]),
  JsonLine([File |-> [StudyInstance |-> JStr("I")],
            Status |-> [state |-> JStr("START_RECORD")],
            Record |-> [UNIXTimeStamp |-> JNum(5)],
            question |-> JStr("q")]),
  BadJsonLine,
  JsonLine([Status |-> [state |-> JStr("IDLE")],
            Record |-> [UNIXTimeStamp |-> JNum(4)]]),
  JsonLine([Status |-> [state |-> JStr("START_RECORD")],
            Record |-> [UNIXTimeStamp |-> JStr("soon")]]),
  JsonLine([Record |-> [State |-> JStr("STOP_RECORD"), UNIXTimeStamp |-> JNum(4)],
            question |-> JStr("q")]),
  JsonLine([question |-> JStr("q")])
>>

\* ---------------------------------------------------------------- the state
VARIABLES
  file,        \* parse_file: the lines of the file
  version,     \* parse_file: the version argument, in tenths
  pc,          \* parse_file: where the call is
  n,           \* number of lines consumed (the next line is line n, 0-based)
  rows_hr, rows_accel,  \* accepted rows (sequences of cells)
  src_hr, src_accel,    \* history: the line number of each accepted row
  json_objs,   \* the dict json_objs, as its items in insertion order
  read_exc,    \* the exception the try block caught, or "none"
  df_hr, df_accel, df_survey,  \* the tables
  meta_out, rows_survey, j,    \* _process_json_objs' locals and loop index
  file_data,   \* the returned bundle
  raised,      \* the exception parse_file propagated, or "none"
  sel_data,    \* select_period: the data argument (a table or a bundle)
  sel_col,     \* select_period: time_column_name
  sel_args,    \* select_period: time_start, time_end, duration
  sel_result,  \* select_period: what the call returned or raised
  rt_first,    \* round trip: the result of the start/end call
  sel_pc       \* where the caller of select_period is

parse_vars == <<file, version, pc, n, rows_hr, rows_accel, src_hr, src_accel,
                json_objs, read_exc, df_hr, df_accel, df_survey, meta_out,
                rows_survey, j, file_data, raised>>

sel_vars == <<sel_data, sel_col, sel_args, sel_result, rt_first, sel_pc>>

vars == <<parse_vars, sel_vars>>

\* ------------------------------------------------- parse_file: the read loop
\* Lines 171-203 for one line that was read: what happens to it.
\*   tag: "skip" (blank line / empty row), "json", "json_error", "accel",
\*        "bad_accel", "hr", "bad_hr", "unknown", or "exc" (an exception that
\*        leaves the loop: exc names it); row: the row appended.
Outcome(tag, row, exc) == [tag |-> tag, row |-> row, exc |-> exc]

\* line 198: row[1] = round(int(row[1]) / 10)
LegacyScaleIndex == 2

\* LegacyScale with the fault of scaling the confidence field (row[2])
LegacyScaleConfidence(cells) ==
  [cells EXCEPT ![3] = IntCell(RoundDiv10(IntOfStr(cells[3].s)))]

LegacyScale(cells) ==
  [cells EXCEPT ![LegacyScaleIndex] = IntCell(RoundDiv10(IntOfStr(cells[LegacyScaleIndex].s)))]

ClassifyLine(raw, ver) ==
  LET line == Strip(raw.chars, Whitespace)
      row == CsvRow(line)
      cells == [i \in 1..Len(row) |-> StrCell(row[i])]
      startsA == row[1] # <<>> /\ row[1][1] = "A"
  IN IF line = <<>> THEN Outcome("skip", <<>>, "none")
     ELSE IF line[1] = "{"
       THEN IF raw.ok THEN Outcome("json", <<>>, "none")
            ELSE Outcome("json_error", <<>>, "none")
     ELSE IF row = <<>> THEN Outcome("skip", <<>>, "none")
     ELSE IF startsA /\ Len(row) = Len(cols_accel)
       THEN Outcome("accel", [cells EXCEPT ![1] = StrCell(Strip(row[1], {"A"}))], "none")
     ELSE IF startsA /\ Len(row) # Len(cols_accel)
       THEN Outcome("bad_accel", <<>>, "none")
     ELSE IF row[1] = <<>> THEN Outcome("exc", <<>>, "IndexError")  \* row[0][0]
     ELSE IF row[1][1] \in DigitChars /\ Len(row) = Len(cols_hr)
       THEN IF ver < LegacyVersionTenths
            THEN IF IsIntStr(row[LegacyScaleIndex])
                 THEN Outcome("hr", LegacyScale(cells), "none")
                 ELSE Outcome("exc", <<>>, "ValueError")  \* int(row[1])
            ELSE Outcome("hr", cells, "none")
     ELSE IF row[1][1] \in DigitChars /\ Len(row) # Len(cols_hr)
       THEN Outcome("bad_hr", <<>>, "none")
     ELSE Outcome("unknown", <<>>, "none")

NoResult == [exc |-> "none", called |-> FALSE]

\* select_period is not called
SelIdle ==
  /\ sel_data = <<>> /\ sel_col = "" /\ sel_args = <<>>
  /\ sel_result = NoResult /\ rt_first = NoResult /\ sel_pc = "off"

Init ==
  /\ SelIdle
  /\ \E len \in 0..MaxLines :
       \E idx \in [1..len -> 1..Len(LineSamples)] :
         file = [i \in 1..len |-> LineSamples[idx[i]]]
  /\ version \in VersionTenths
  /\ pc = "open"
  /\ n = 0
  /\ rows_hr = <<>> /\ rows_accel = <<>>
  /\ src_hr = <<>> /\ src_accel = <<>>
  /\ json_objs = <<>>
  /\ read_exc = "none"
  /\ df_hr = <<>> /\ df_accel = <<>> /\ df_survey = <<>>
  /\ meta_out = EmptyDict /\ rows_survey = <<>> /\ j = 0
  /\ file_data = EmptyDict
  /\ raised = "none"

\* line 168: open() succeeds
OpenFile ==
  /\ pc = "open"
  /\ pc' = "read"
  /\ UNCHANGED <<file, version, n, rows_hr, rows_accel, src_hr, src_accel,
                 json_objs, read_exc, df_hr, df_accel, df_survey, meta_out,
                 rows_survey, j, file_data, raised, sel_vars>>

\* lines 168, 205-206: open() raises FileNotFoundError, which is caught
FileNotFound ==
  /\ pc = "open"
  /\ read_exc' = "FileNotFoundError"
  /\ pc' = "build_hr"
  /\ UNCHANGED <<file, version, n, rows_hr, rows_accel, src_hr, src_accel,
                 json_objs, df_hr, df_accel, df_survey, meta_out,
                 rows_survey, j, file_data, raised, sel_vars>>

\* lines 170-203: one iteration of the loop over the file's lines; an
\* exception (reading the line, row[0][0], int(row[1])) is caught at
\* lines 207-208 and ends the loop.
ReadLine ==
  /\ pc = "read"
  /\ n < Len(file)
  /\ LET raw == file[n + 1]
         out == IF raw.io THEN Outcome("exc", <<>>, "UnicodeDecodeError")
                ELSE ClassifyLine(raw, version)
     IN /\ n' = n + 1
        /\ json_objs' = IF out.tag = "json"
                        THEN Append(json_objs, [n |-> n, obj |-> raw.obj])
                        ELSE json_objs
        /\ rows_accel' = IF out.tag = "accel" THEN Append(rows_accel, out.row)
                         ELSE rows_accel
        /\ src_accel' = IF out.tag = "accel" THEN Append(src_accel, n) ELSE src_accel
        /\ rows_hr' = IF out.tag = "hr" THEN Append(rows_hr, out.row) ELSE rows_hr
        /\ src_hr' = IF out.tag = "hr" THEN Append(src_hr, n) ELSE src_hr
        /\ read_exc' = out.exc
        /\ pc' = IF out.tag = "exc" THEN "build_hr" ELSE "read"
  /\ UNCHANGED <<file, version, df_hr, df_accel, df_survey, meta_out,
                 rows_survey, j, file_data, raised, sel_vars>>

\* line 170: the file is exhausted
EndOfFile ==
  /\ pc = "read"
  /\ n = Len(file)
  /\ pc' = "build_hr"
  /\ UNCHANGED <<file, version, n, rows_hr, rows_accel, src_hr, src_accel,
                 json_objs, read_exc, df_hr, df_accel, df_survey, meta_out,
                 rows_survey, j, file_data, raised, sel_vars>>

\* --------------------------------------------------- _dataframe_from_list
IsEmptyCell(c) == c.ty = "str" /\ c.s = <<>>

CanCast(c) == c.ty = "int" \/ IsIntStr(c.s)

CastInt(c) == IF c.ty = "int" THEN c.n ELSE IntOfStr(c.s)

ColIndex(cols, name) == CHOOSE i \in 1..Len(cols) : cols[i] = name

ColNames(cols) == {cols[i] : i \in 1..Len(cols)}

\* pd.to_timedelta(k, unit="ms")
ToTimedeltaMs(k) == Time(k * NsPerMs)

\* The positions (0-based index labels) of the rows that survive dropna()
KeptIndex(rows) ==
  LET RECURSIVE K(_)
      K(i) == IF i > Len(rows) THEN <<>>
              ELSE IF \E c \in 1..Len(rows[i]) : IsEmptyCell(rows[i][c])
              THEN K(i + 1)
              ELSE <<i - 1>> \o K(i + 1)
  IN K(1)

TableRow(row, cols, index) ==
  [c \in ColNames(cols) \cup {"index"} |->
     IF c = "index" THEN index
     ELSE IF c = "time_elapsed" THEN ToTimedeltaMs(CastInt(row[ColIndex(cols, c)]))
     ELSE CastInt(row[ColIndex(cols, c)])]

\* exc: the exception astype raises ("none" when every kept cell casts)
DataFrameFromList(rows, cols) ==
  LET kept == KeptIndex(rows)
      bad == \E k \in 1..Len(kept) :
               \E c \in 1..Len(cols) : ~CanCast(rows[kept[k] + 1][c])
  IN IF bad THEN [exc |-> "ValueError", df |-> <<>>]
     ELSE [exc |-> "none",
           df |-> [k \in 1..Len(kept) |-> TableRow(rows[kept[k] + 1], cols, kept[k])]]

\* line 211
BuildHr ==
  /\ pc = "build_hr"
  /\ LET r == DataFrameFromList(rows_hr, cols_hr)
     IN /\ df_hr' = r.df
        /\ raised' = r.exc
        /\ pc' = IF r.exc = "none" THEN "build_accel" ELSE "raised"
  /\ UNCHANGED <<file, version, n, rows_hr, rows_accel, src_hr, src_accel,
                 json_objs, read_exc, df_accel, df_survey, meta_out,
                 rows_survey, j, file_data, sel_vars>>

\* line 214
BuildAccel ==
  /\ pc = "build_accel"
  /\ LET r == DataFrameFromList(rows_accel, cols_accel)
     IN /\ df_accel' = r.df
        /\ raised' = r.exc
        /\ pc' = IF r.exc = "none" THEN "json_begin" ELSE "raised"
  /\ UNCHANGED <<file, version, n, rows_hr, rows_accel, src_hr, src_accel,
                 json_objs, read_exc, df_hr, df_survey, meta_out,
                 rows_survey, j, file_data, sel_vars>>

\* ------------------------------------------------------ _process_json_objs
\* lines 75-79; get_utc_now() is rendered as the string "now"
BaselineMeta == [Parsed_on |-> JStr("now"), StudyName |-> JStr("NA"),
                 StudyInstance |-> JStr("NA")]

Reconciled(meta, rows, exc) == [meta |-> meta, rows |-> rows, exc |-> exc]

\* lines 90-95 and 97-102: copy o["Record"] under start_ / stop_ according
\* to state; KeyError when o has no "Record"
CopyRecord(meta, rows, o, state) ==
  IF state = JStr("START_RECORD")
  THEN IF "Record" \in DOMAIN o
       THEN Reconciled(Merge(meta, o["Record"], "start_"), rows, "none")
       ELSE Reconciled(meta, rows, "KeyError")
  ELSE IF state = JStr("STOP_RECORD")
  THEN IF "Record" \in DOMAIN o
       THEN Reconciled(Merge(meta, o["Record"], "stop_"), rows, "none")
       ELSE Reconciled(meta, rows, "KeyError")
  ELSE Reconciled(meta, rows, "none")

\* ReconcileObj with the fault of testing "question" in an "if" of its own
\* instead of the last "elif"
ReconcileObjSurveyAlways(meta, rows, o) ==
  LET r == IF "File" \in DOMAIN o
           THEN Reconciled(Merge(meta, o["File"], ""), rows, "none")
           ELSE IF "Status" \in DOMAIN o
           THEN LET m1 == Merge(meta, o["Status"], "status_")
                IN IF "state" \in DOMAIN o["Status"]
                   THEN CopyRecord(m1, rows, o, o["Status"]["state"])
                   ELSE Reconciled(m1, rows, "KeyError")
           ELSE IF "Record" \in DOMAIN o
           THEN IF "State" \in DOMAIN o["Record"]
                THEN CopyRecord(meta, rows, o, o["Record"]["State"])
                ELSE Reconciled(meta, rows, "KeyError")
           ELSE Reconciled(meta, rows, "none")
  IN IF "question" \in DOMAIN o /\ r.exc = "none"
     THEN Reconciled(r.meta, Append(rows, o), "none")
     ELSE r

\* lines 84-106: one iteration of the loop over json_objs
ReconcileObj(meta, rows, o) ==
  IF "File" \in DOMAIN o
  THEN Reconciled(Merge(meta, o["File"], ""), rows, "none")
  ELSE IF "Status" \in DOMAIN o
  THEN LET m1 == Merge(meta, o["Status"], "status_")
       IN IF "state" \in DOMAIN o["Status"]
          THEN CopyRecord(m1, rows, o, o["Status"]["state"])
          ELSE Reconciled(m1, rows, "KeyError")
  ELSE IF "Record" \in DOMAIN o
  THEN IF "State" \in DOMAIN o["Record"]
       THEN CopyRecord(meta, rows, o, o["Record"]["State"])
       ELSE Reconciled(meta, rows, "KeyError")
  ELSE IF "question" \in DOMAIN o
  THEN Reconciled(meta, Append(rows, o), "none")
  ELSE Reconciled(meta, rows, "none")

\* lines 75-82: the locals of _process_json_objs
BeginProcessJson ==
  /\ pc = "json_begin"
  /\ meta_out' = BaselineMeta
  /\ rows_survey' = <<>>
  /\ j' = 1
  /\ pc' = "json"
  /\ UNCHANGED <<file, version, n, rows_hr, rows_accel, src_hr, src_accel,
                 json_objs, read_exc, df_hr, df_accel, df_survey,
                 file_data, raised, sel_vars>>

\* lines 83-106: the next object; a KeyError leaves parse_file
ProcessJsonObj ==
  /\ pc = "json"
  /\ j <= Len(json_objs)
  /\ LET r == ReconcileObj(meta_out, rows_survey, json_objs[j].obj)
     IN /\ meta_out' = r.meta
        /\ rows_survey' = r.rows
        /\ raised' = r.exc
        /\ pc' = IF r.exc = "none" THEN "json" ELSE "raised"
  /\ j' = j + 1
  /\ UNCHANGED <<file, version, n, rows_hr, rows_accel, src_hr, src_accel,
                 json_objs, read_exc, df_hr, df_accel, df_survey, file_data, sel_vars>>

\* pd.to_datetime(v, utc=True) of line 129: a number counts nanoseconds
\* since the epoch (no unit is given); a string that is no date raises.
ToDatetime(v) == IF v.ty = "num" THEN Time(v.n) ELSE NaT

\* pd.to_datetime(v, unit="ms", utc=True) of line 115
ToDatetimeMs(k) == Time(k * NsPerMs)

\* lines 125-135
GetStartTimestamp(metadata) ==
  IF "start_UNIXTimeStamp" \in DOMAIN metadata
  THEN ToDatetime(metadata["start_UNIXTimeStamp"])
  ELSE NaT

\* lines 112-121 for one survey object: the int64 columns must be there
\* and timeStamp must be a number or missing (NaN)
SurveyCastOk(o) ==
  /\ \A c \in survey_int_cols : c \in DOMAIN o /\ o[c].ty = "num"
  /\ "timeStamp" \in DOMAIN o => o["timeStamp"].ty = "num"

SurveyRow(o, index, start) ==
  LET abs == IF "timeStamp" \in DOMAIN o THEN ToDatetimeMs(o["timeStamp"].n) ELSE NaT
  IN [index |-> index, number |-> o["number"].n, item |-> o["item"].n,
      question |-> o["question"],
      time_absolute |-> abs, time_elapsed |-> TimeSub(abs, start)]

\* lines 112-123: the survey table
BuildSurvey ==
  /\ pc = "json"
  /\ j > Len(json_objs)
  /\ IF \A k \in 1..Len(rows_survey) : SurveyCastOk(rows_survey[k])
     THEN /\ df_survey' = [k \in 1..Len(rows_survey) |->
                             SurveyRow(rows_survey[k], k - 1, GetStartTimestamp(meta_out))]
          /\ pc' = "timestamps"
          /\ UNCHANGED raised
     ELSE /\ raised' = "ValueError"
          /\ pc' = "raised"
          /\ UNCHANGED df_survey
  /\ UNCHANGED <<file, version, n, rows_hr, rows_accel, src_hr, src_accel,
                 json_objs, read_exc, df_hr, df_accel, meta_out,
                 rows_survey, j, file_data, sel_vars>>

\* ------------------------------------------- _process_absolute_timestamps
\* line 143
WithAbsolute(metadata, df) ==
  [k \in 1..Len(df) |->
     [c \in DOMAIN df[k] \cup {"time_absolute"} |->
        IF c = "time_absolute"
        THEN TimeAdd(df[k]["time_elapsed"], GetStartTimestamp(metadata))
        ELSE df[k][c]]]

\* lines 220-221
ProcessAbsoluteTimestamps ==
  /\ pc = "timestamps"
  /\ df_hr' = WithAbsolute(meta_out, df_hr)
  /\ df_accel' = WithAbsolute(meta_out, df_accel)
  /\ pc' = "assemble"
  /\ UNCHANGED <<file, version, n, rows_hr, rows_accel, src_hr, src_accel,
                 json_objs, read_exc, df_survey, meta_out,
                 rows_survey, j, file_data, raised, sel_vars>>

\* ------------------------------------------------------ the returned bundle
\* Series.max() of a time column: NaT for an empty table
MaxElapsed(df) ==
  IF df = <<>> THEN NaT
  ELSE LET k == CHOOSE a \in 1..Len(df) :
                  \A b \in 1..Len(df) : df[b]["time_elapsed"].t <= df[a]["time_elapsed"].t
       IN df[k]["time_elapsed"]

\* lines 224-231
UpdatedMeta(meta) ==
  Merge(meta,
        [n_samples_hr |-> JNum(Len(df_hr)),
         n_samples_accel |-> JNum(Len(df_accel)),
         n_survey_responses |-> JNum(Len(df_survey)),
         duration_hr |-> JTd(MaxElapsed(df_hr)),
         duration_accel |-> JTd(MaxElapsed(df_accel))],
        "")

\* BundleKeys with the fault of leaving out the "if not df.empty" test
BundleKeysAll == {"metadata", "data_hr", "data_accel", "data_survey"}

\* lines 234-241: a table is in the bundle only if it is not empty
BundleKeys ==
  {"metadata"} \cup (IF df_hr # <<>> THEN {"data_hr"} ELSE {})
               \cup (IF df_accel # <<>> THEN {"data_accel"} ELSE {})
               \cup (IF df_survey # <<>> THEN {"data_survey"} ELSE {})

\* lines 224-243
Assemble ==
  /\ pc = "assemble"
  /\ file_data' = [k \in BundleKeys |->
                     IF k = "metadata" THEN UpdatedMeta(meta_out)
                     ELSE IF k = "data_hr" THEN df_hr
                     ELSE IF k = "data_accel" THEN df_accel
                     ELSE df_survey]
  /\ pc' = "returned"
  /\ UNCHANGED <<file, version, n, rows_hr, rows_accel, src_hr, src_accel,
                 json_objs, read_exc, df_hr, df_accel, df_survey, meta_out,
                 rows_survey, j, raised, sel_vars>>

Next ==
  \/ OpenFile
  \/ FileNotFound
  \/ ReadLine
  \/ EndOfFile
  \/ BuildHr
  \/ BuildAccel
  \/ BeginProcessJson
  \/ ProcessJsonObj
  \/ BuildSurvey
  \/ ProcessAbsoluteTimestamps
  \/ Assemble

Spec == Init /\ [][Next]_vars

\* ------------------------------------------------------------ select_period
\* The arguments: None, a pd.Timestamp (always truthy) or a pd.Timedelta
\* (falsy when zero).
None == [kind |-> "none", v |-> 0]
Timestamp(v) == [kind |-> "ts", v |-> v]
Timedelta(v) == [kind |-> "td", v |-> v]

\* bool(x), as "if time_start and time_end" evaluates it
Truthy(x) == x.kind = "ts" \/ (x.kind = "td" /\ x.v # 0)

\* A table, and an entry of a bundle that is no table.  abs is the type of
\* the table's time_absolute column: "ts" (datetime64) when the record start
\* was a timestamp, "td" (timedelta64) when it was NaT, because a timedelta
\* column plus NaT stays a timedelta column (line 143).
Table(rows, abs) == [isdf |-> TRUE, rows |-> rows, dict |-> EmptyDict, abs |-> abs]
NotTable(d) == [isdf |-> FALSE, rows |-> <<>>, dict |-> d, abs |-> ""]

ColumnKind(df, col) == IF col = "time_elapsed" THEN "td" ELSE df.abs

\* InMask with the fault of an exclusive end of the window
InMaskEndExclusive(c, t1, t2) == ~c.nat /\ c.t >= t1 /\ c.t < t2

\* line 283: t1 <= c <= t2; a comparison with NaT is False
InMask(c, t1, t2) == ~c.nat /\ c.t >= t1 /\ c.t <= t2

FilterRows(rows, col, t1, t2) ==
  LET RECURSIVE F(_)
      F(i) == IF i > Len(rows) THEN <<>>
              ELSE IF InMask(rows[i][col], t1, t2) THEN <<rows[i]>> \o F(i + 1)
              ELSE F(i + 1)
  IN F(1)

\* Series.min() / Series.max(), skipping NaT; NaT when nothing is left
ColValues(rows, col) == {rows[i][col].t : i \in {k \in 1..Len(rows) : ~rows[k][col].nat}}

ColMax(rows, col) ==
  LET vs == ColValues(rows, col)
  IN IF vs = {} THEN NaT ELSE Time(CHOOSE a \in vs : \A b \in vs : b <= a)

ColMin(rows, col) ==
  LET vs == ColValues(rows, col)
  IN IF vs = {} THEN NaT ELSE Time(CHOOSE a \in vs : \A b \in vs : a <= b)

\* lines 278-281: the warning printed for a table
RangeWarning(rows, col, t1, t2) ==
  LET mx == ColMax(rows, col)
      mn == ColMin(rows, col)
  IN IF ~mx.nat /\ t1 > mx.t THEN "start out of range"
     ELSE IF ~mn.nat /\ t2 < mn.t THEN "end out of range"
     ELSE "none"

\* lines 268-286
Select(df_in, col, t1, t2) ==
  IF ~df_in.isdf THEN df_in
  ELSE Table(FilterRows(df_in.rows, col, t1, t2), df_in.abs)

\* line 283: comparing a column with a bound of the other type (a timedelta
\* column with a Timestamp) raises TypeError
Comparable(df_in, col, kind) == ~df_in.isdf \/ ColumnKind(df_in, col) = kind

\* lines 289-303: the window, or the ValueError
Window(exc, t1, t2, kind) == [exc |-> exc, t1 |-> t1, t2 |-> t2, kind |-> kind]

ResolveWindow(time_start, time_end, duration) ==
  IF Truthy(time_start) /\ Truthy(time_end)
  THEN Window("none", time_start.v, time_end.v, time_start.kind)
  ELSE IF Truthy(time_start) /\ Truthy(duration)
  THEN Window("none", time_start.v, time_start.v + duration.v, time_start.kind)
  ELSE IF Truthy(time_end) /\ Truthy(duration)
  THEN Window("none", time_end.v - duration.v, time_end.v, time_end.kind)
  ELSE Window("ValueError", 0, 0, "none")

\* lines 255-310; data is a table (single = TRUE) or a bundle
select_period(data, single, time_start, time_end, duration, col) ==
  LET w == ResolveWindow(time_start, time_end, duration)
      tables == IF single THEN <<data>> ELSE [k \in DOMAIN data |-> data[k]]
  IN IF w.exc # "none"
     THEN [exc |-> w.exc, called |-> TRUE, t1 |-> 0, t2 |-> 0, out |-> <<>>, warn |-> <<>>]
     ELSE IF \E k \in DOMAIN tables : ~Comparable(tables[k], col, w.kind)
     THEN [exc |-> "TypeError", called |-> TRUE, t1 |-> w.t1, t2 |-> w.t2,
           out |-> <<>>, warn |-> <<>>]
     ELSE [exc |-> "none", called |-> TRUE, t1 |-> w.t1, t2 |-> w.t2,
           out |-> IF single THEN Select(data, col, w.t1, w.t2)
                   ELSE [k \in DOMAIN data |-> Select(data[k], col, w.t1, w.t2)],
           warn |-> IF single THEN RangeWarning(data.rows, col, w.t1, w.t2)
                    ELSE [k \in {x \in DOMAIN data : data[x].isdf} |->
                            RangeWarning(data[k].rows, col, w.t1, w.t2)]]

\* ------------------------------------------------ callers of select_period
\* parse_file is not running
ParseIdle ==
  /\ file = <<>> /\ version = 1 /\ pc = "off" /\ n = 0
  /\ rows_hr = <<>> /\ rows_accel = <<>> /\ src_hr = <<>> /\ src_accel = <<>>
  /\ json_objs = <<>> /\ read_exc = "none"
  /\ df_hr = <<>> /\ df_accel = <<>> /\ df_survey = <<>>
  /\ meta_out = EmptyDict /\ rows_survey = <<>> /\ j = 0
  /\ file_data = EmptyDict /\ raised = "none"

\* A table as parse_file leaves it: time_elapsed in file order, and
\* time_absolute = time_elapsed + start (NaT when start is NaT)
SampleTable(elapsed, start) ==
  [i \in 1..Len(elapsed) |->
     [index |-> i - 1, time_elapsed |-> Time(elapsed[i]),
      time_absolute |-> TimeAdd(Time(elapsed[i]), start)]]

AbsKind(start) == IF start.nat THEN "td" ELSE "ts"

ElapsedSeqs == UNION {[1..len -> 0..MaxT] : len \in 0..MaxRows}

StartTimes == {NaT, Time(0), Time(1)}

TimeColumns == {"time_absolute", "time_elapsed"}

\* time_start / time_end values that match the column's type
PointArgs(col) ==
  {None} \cup {IF col = "time_absolute" THEN Timestamp(v) ELSE Timedelta(v) : v \in 0..MaxT}

DurationArgs == {None} \cup {Timedelta(v) : v \in 0..MaxT}

\* the data argument: one table, or a bundle with the metadata and two tables
InitData ==
  \E e \in ElapsedSeqs, st \in StartTimes, single \in BOOLEAN :
    sel_data = [single |-> single,
                data |-> IF single THEN Table(SampleTable(e, st), AbsKind(st))
                         ELSE [metadata |-> NotTable(BaselineMeta),
                               data_hr |-> Table(SampleTable(e, st), AbsKind(st)),
                               data_accel |-> Table(SampleTable(<<1, 0>>, st), AbsKind(st))]]

InitSelect ==
  /\ ParseIdle
  /\ InitData
  /\ sel_col \in TimeColumns
  /\ sel_args = <<>>
  /\ sel_result = NoResult /\ rt_first = NoResult
  /\ sel_pc = "call"

\* one call of select_period
Call ==
  /\ sel_pc = "call"
  /\ \E ts \in PointArgs(sel_col), te \in PointArgs(sel_col), d \in DurationArgs :
       /\ sel_args' = [time_start |-> ts, time_end |-> te, duration |-> d]
       /\ sel_result' = select_period(sel_data.data, sel_data.single, ts, te, d, sel_col)
  /\ sel_pc' = "done"
  /\ UNCHANGED <<parse_vars, sel_data, sel_col, rt_first>>

NextSelect == Call

SpecSelect == InitSelect /\ [][NextSelect]_vars

\* The round trip: the same window given as start/end and as start/duration
InitRoundTrip ==
  /\ ParseIdle
  /\ InitData
  /\ sel_col \in TimeColumns
  /\ \E T \in 0..MaxT, D \in 0..MaxT :
       sel_args = [T |-> IF sel_col = "time_absolute" THEN Timestamp(T) ELSE Timedelta(T),
                   D |-> Timedelta(D)]
  /\ sel_result = NoResult /\ rt_first = NoResult
  /\ sel_pc = "start_end"

\* T + D, as the caller computes it (Timestamp + Timedelta, Timedelta + Timedelta)
Plus(T, D) == [kind |-> T.kind, v |-> T.v + D.v]

\* select_period(data, time_start=T, time_end=T+D)
SelectStartEnd ==
  /\ sel_pc = "start_end"
  /\ rt_first' = select_period(sel_data.data, sel_data.single, sel_args.T,
                               Plus(sel_args.T, sel_args.D), None, sel_col)
  /\ sel_pc' = "start_duration"
  /\ UNCHANGED <<parse_vars, sel_data, sel_col, sel_args, sel_result>>

\* select_period(data, time_start=T, duration=D)
SelectStartDuration ==
  /\ sel_pc = "start_duration"
  /\ sel_result' = select_period(sel_data.data, sel_data.single, sel_args.T,
                                 None, sel_args.D, sel_col)
  /\ sel_pc' = "done"
  /\ UNCHANGED <<parse_vars, sel_data, sel_col, sel_args, rt_first>>

NextRoundTrip == SelectStartEnd \/ SelectStartDuration

SpecRoundTrip == InitRoundTrip /\ [][NextRoundTrip]_vars

\* ====================================================================== claims
\* What the properties say about a line, read off the file format (not off
\* the classifier): the fields of a data line, and the kinds of line.
FieldsOf(l) == CsvRow(Strip(l.chars, Whitespace))

IsBlank(l) == ~l.io /\ Strip(l.chars, Whitespace) = <<>>

IsBraceLine(l) == ~l.io /\ ~IsBlank(l) /\ Strip(l.chars, Whitespace)[1] = "{"

IsDataLine(l) == ~l.io /\ ~IsBlank(l) /\ ~IsBraceLine(l)

AllNumeric(fs, from) == \A i \in from..Len(fs) : IsIntStr(fs[i])

WellFormedJson(l) == IsBraceLine(l) /\ l.ok

WellFormedHr(l) ==
  /\ IsDataLine(l)
  /\ Len(FieldsOf(l)) = Len(cols_hr)
  /\ AllNumeric(FieldsOf(l), 1)

WellFormedAccel(l) ==
  /\ IsDataLine(l)
  /\ Len(FieldsOf(l)) = Len(cols_accel)
  /\ Len(FieldsOf(l)[1]) > 1
  /\ FieldsOf(l)[1][1] = "A"
  /\ IsIntStr(Tail(FieldsOf(l)[1]))
  /\ AllNumeric(FieldsOf(l), 2)

WellFormed(l) == WellFormedJson(l) \/ WellFormedHr(l) \/ WellFormedAccel(l)

\* wrong field count for an accel or hr row, a "{" line that fails to
\* decode, or a first field that is empty or neither numeric nor "A..."
Malformed(l) ==
  \/ IsBraceLine(l) /\ ~l.ok
  \/ /\ IsDataLine(l)
     /\ LET f == FieldsOf(l)
        IN \/ f[1] = <<>>
           \/ f[1] # <<>> /\ f[1][1] \notin DigitChars \cup {"A"}
           \/ f[1] # <<>> /\ f[1][1] = "A" /\ Len(f) # Len(cols_accel)
           \/ f[1] # <<>> /\ f[1][1] \in DigitChars /\ Len(f) # Len(cols_hr)

SeqRange(q) == {q[i] : i \in 1..Len(q)}

\* the (0-based) numbers of the lines accepted into a row collection
AcceptedLines ==
  SeqRange(src_hr) \cup SeqRange(src_accel) \cup {json_objs[i].n : i \in 1..Len(json_objs)}

ReadOver == pc \notin {"off", "open", "read"}

\* C1: a malformed line is dropped on its own and parsing continues.  In a
\* file that was opened and holds only blank, malformed and well-formed
\* lines, once reading is over every well-formed line that comes after a
\* malformed line has been accepted into its row collection.
C1_MalformedLineDroppedAlone ==
  (/\ ReadOver
   /\ read_exc # "FileNotFoundError"
   /\ \A i \in 1..Len(file) : IsBlank(file[i]) \/ Malformed(file[i]) \/ WellFormed(file[i]))
  => \A i \in 1..Len(file) : \A k \in (i + 1)..Len(file) :
       (Malformed(file[i]) /\ WellFormed(file[k])) => (k - 1) \in AcceptedLines

\* The heart-rate row of the table df, its source line and that line's fields
SourceFields(r) == FieldsOf(file[src_hr[r["index"] + 1] + 1])

Legacy == version < LegacyVersionTenths

HrTableBuilt == pc \in {"build_accel", "json_begin", "json", "timestamps",
                        "assemble", "returned"}

RecordStartMs(metadata) ==
  IF "start_UNIXTimeStamp" \in DOMAIN metadata /\ metadata["start_UNIXTimeStamp"].ty = "num"
  THEN Time(metadata["start_UNIXTimeStamp"].n * NsPerMs)
  ELSE NaT

BackFilled == pc \in {"assemble", "returned"}

\* C3: after the back-fill every hr and accel row has time_absolute =
\* record start + time_elapsed, the record start being start_UNIXTimeStamp
\* read as milliseconds since the epoch.
C3_AbsoluteFromMsStart ==
  BackFilled =>
    /\ \A k \in 1..Len(df_hr) :
         df_hr[k]["time_absolute"] = TimeAdd(RecordStartMs(meta_out), df_hr[k]["time_elapsed"])
    /\ \A k \in 1..Len(df_accel) :
         df_accel[k]["time_absolute"] = TimeAdd(RecordStartMs(meta_out), df_accel[k]["time_elapsed"])

\* C7: parse_file never fails on the shape of a decoded JSON object: no
\* exception leaves parse_file once the reconciler has started.
C7_NoFailureOnJsonShape == ~(pc = "raised" /\ j > 0)

\* The lines read before the failure: all n lines consumed but the last,
\* which is the one that failed (none when the file was not found)
LinesBeforeFailure == IF n = 0 THEN {} ELSE 1..(n - 1)

\* a decoded object that the reconciler files under survey responses
IsSurveyObj(o) == "question" \in DOMAIN o /\ DOMAIN o \cap {"File", "Status", "Record"} = {}

BaselineKeys == {"Parsed_on", "StudyName", "StudyInstance"}

ReadFailed == read_exc # "none"

Prefixed(d, prefix) ==
  [x \in {prefix \o k : k \in DOMAIN d} |-> d[CHOOSE k \in DOMAIN d : prefix \o k = x]]

Override(m, w) == [x \in DOMAIN m \cup DOMAIN w |-> IF x \in DOMAIN w THEN w[x] ELSE m[x]]

RecordEntries(o, state) ==
  IF state = JStr("START_RECORD") THEN Prefixed(o["Record"], "start_")
  ELSE IF state = JStr("STOP_RECORD") THEN Prefixed(o["Record"], "stop_")
  ELSE EmptyDict

Writes(o) ==
  IF "File" \in DOMAIN o THEN o["File"]
  ELSE IF "Status" \in DOMAIN o
  THEN Override(Prefixed(o["Status"], "status_"), RecordEntries(o, o["Status"]["state"]))
  ELSE IF "Record" \in DOMAIN o THEN RecordEntries(o, o["Record"]["State"])
  ELSE EmptyDict

\* the loop over json_objs is over
ReconcilerDone ==
  \/ pc = "json" /\ j > Len(json_objs)
  \/ pc \in {"timestamps", "assemble", "returned"}

\* the positions in json_objs of the objects that write key x
Writers(x) == {i \in 1..Len(json_objs) : x \in DOMAIN Writes(json_objs[i].obj)}

Last(S) == CHOOSE a \in S : \A b \in S : b <= a

\* the survey objects of json_objs, in file order
RECURSIVE SurveyObjsFrom(_)
SurveyObjsFrom(i) ==
  IF i > Len(json_objs) THEN <<>>
  ELSE IF IsSurveyObj(json_objs[i].obj) THEN <<json_objs[i].obj>> \o SurveyObjsFrom(i + 1)
  ELSE SurveyObjsFrom(i + 1)

\* C9: every object is handled by the first rule among File, Status, Record,
\* question that matches it and by no later one, in file order: when the
\* reconciler is done the metadata has the baseline keys and the keys the
\* objects write, each key holds the value of the last object that writes
\* it (the baseline value if none does), and the survey rows are the objects
\* with "question" and none of File / Status / Record, in file order.
C9_FirstRuleLastWriteWins ==
  ReconcilerDone =>
    /\ DOMAIN meta_out =
         BaselineKeys \cup UNION {DOMAIN Writes(json_objs[i].obj) : i \in 1..Len(json_objs)}
    /\ \A x \in DOMAIN meta_out :
         meta_out[x] = IF Writers(x) = {} THEN BaselineMeta[x]
                       ELSE Writes(json_objs[Last(Writers(x))].obj)[x]
    /\ rows_survey = SurveyObjsFrom(1)

\* two objects of the file wrote the same key with different values
C9_Witness ==
  /\ pc = "returned"
  /\ \E a, b \in 1..Len(json_objs) :
       /\ a < b
       /\ "StudyName" \in DOMAIN Writes(json_objs[a].obj) \cap DOMAIN Writes(json_objs[b].obj)
       /\ Writes(json_objs[a].obj)["StudyName"] # Writes(json_objs[b].obj)["StudyName"]

\* a START_RECORD entry with a valid UNIXTimeStamp: a Status object in state
\* START_RECORD, or a legacy Record object with State START_RECORD
IsStartRecord(o) ==
  /\ "File" \notin DOMAIN o
  /\ \/ "Status" \in DOMAIN o /\ "state" \in DOMAIN o["Status"]
        /\ o["Status"]["state"] = JStr("START_RECORD")
     \/ "Status" \notin DOMAIN o /\ "Record" \in DOMAIN o /\ "State" \in DOMAIN o["Record"]
        /\ o["Record"]["State"] = JStr("START_RECORD")
  /\ "Record" \in DOMAIN o
  /\ "UNIXTimeStamp" \in DOMAIN o["Record"]
  /\ o["Record"]["UNIXTimeStamp"].ty = "num"

\* C10: the record start timestamp is defined only if a START_RECORD entry
\* with a valid UNIXTimeStamp was observed; otherwise it is NaT, every
\* time_absolute of the hr and accel tables and every time_elapsed of the
\* survey table is NaT, and no error is raised.
C10_StartOnlyFromStartRecord ==
  LET observed == \E i \in 1..Len(json_objs) : IsStartRecord(json_objs[i].obj)
  IN /\ ReconcilerDone =>
          (~GetStartTimestamp(meta_out).nat => observed)
     /\ (BackFilled /\ ~observed) =>
          /\ \A k \in 1..Len(df_hr) : df_hr[k]["time_absolute"].nat
          /\ \A k \in 1..Len(df_accel) : df_accel[k]["time_absolute"].nat
          /\ \A k \in 1..Len(df_survey) : df_survey[k]["time_elapsed"].nat

\* --------------------------------------------------- claims on select_period
Supplied(x) == x.kind # "none"

NumSupplied(a) ==
  Cardinality({k \in {"time_start", "time_end", "duration"} : Supplied(a[k])})

Called == sel_pc = "done" /\ DOMAIN sel_args = {"time_start", "time_end", "duration"}

\* C4: select_period raises the two-of-three ValueError if and only if fewer
\* than two of time_start, time_end and duration are supplied; with two or
\* more supplied the window is [start, end], else [start, start + duration],
\* else [end - duration, end].
C4_TwoOfThree ==
  Called =>
    LET a == sel_args
        r == sel_result
    IN /\ (r.exc = "ValueError") <=> (NumSupplied(a) < 2)
       /\ NumSupplied(a) >= 2 =>
            IF Supplied(a.time_start) /\ Supplied(a.time_end)
            THEN r.t1 = a.time_start.v /\ r.t2 = a.time_end.v
            ELSE IF Supplied(a.time_start)
            THEN r.t1 = a.time_start.v /\ r.t2 = a.time_start.v + a.duration.v
            ELSE r.t1 = a.time_end.v - a.duration.v /\ r.t2 = a.time_end.v

RoundTripDone == sel_pc = "done" /\ DOMAIN sel_args = {"T", "D"}

\* C5: for every table, start T and duration D >= 0, the calls
\* select_period(time_start=T, time_end=T+D) and
\* select_period(time_start=T, duration=D) both return, with the same rows.
C5_RoundTrip ==
  RoundTripDone =>
    /\ rt_first.exc = "none"
    /\ sel_result.exc = "none"
    /\ rt_first.out = sel_result.out

\* the tables of the data argument and of the result, by name
InTables ==
  IF sel_data.single THEN [k \in {"(single)"} |-> sel_data.data]
  ELSE [k \in {x \in DOMAIN sel_data.data : sel_data.data[x].isdf} |-> sel_data.data[k]]

OutTable(k) == IF sel_data.single THEN sel_result.out ELSE sel_result.out[k]

Indexes(rows) == [i \in 1..Len(rows) |-> rows[i]["index"]]

Increasing(q) == \A a, b \in 1..Len(q) : a < b => q[a] < q[b]

\* the bounds are of the type of every table's time column
TypesMatch ==
  \A k \in DOMAIN InTables :
    ColumnKind(InTables[k], sel_col) =
      (IF sel_col = "time_absolute" THEN "ts" ELSE "td")

====
